---- MODULE Spec2Model ----
(***************************************************************************)
(* Model of the flutter_paste_input desktop plugins (Linux/GTK and         *)
(* Windows/GDI+): the method-channel handler, the clipboard classifier,    *)
(* temp-file staging and the sweep of staged files.                        *)
(*                                                                         *)
(* Strings are sequences of one-character strings, so that prefix tests,   *)
(* extension extraction, case folding and terminators are computed, not    *)
(* assumed.  "NUL" stands for the zero code unit.                          *)
(***************************************************************************)
EXTENDS Integers, Sequences, FiniteSets, TLC

VARIABLES platform, event_sink, tmp, pc, call

vars == <<platform, event_sink, tmp, pc, call>>

(***************************************************************************)
(* Bounds of the model.                                                    *)
(***************************************************************************)
MaxUris == 2        \* longest URI list on the Linux clipboard
MaxDropFiles == 2   \* longest CF_HDROP file list on the Windows clipboard
MaxRandom == 1      \* random suffixes drawn for a staged file: 0..MaxRandom

(***************************************************************************)
(* String helpers.                                                         *)
(***************************************************************************)
NUL == "NUL"

RECURSIVE Digits(_)
\* "%lu" / "%d" / operator<< of a non-negative integer: its decimal digits.
Digits(n) ==
    LET d == <<"0", "1", "2", "3", "4", "5", "6", "7", "8", "9">>
    IN IF n < 10 THEN <<d[n + 1]>> ELSE Digits(n \div 10) \o <<d[(n % 10) + 1]>>

\* g_str_has_prefix(str, prefix)
g_str_has_prefix(str, prefix) ==
    /\ Len(str) >= Len(prefix)
    /\ SubSeq(str, 1, Len(prefix)) = prefix

\* towlower on the letters that occur in the model's file names
towlower(c) ==
    CASE c = "P" -> "p" [] c = "N" -> "n" [] c = "G" -> "g" [] c = "J" -> "j"
      [] c = "E" -> "e" [] c = "I" -> "i" [] c = "F" -> "f" [] c = "B" -> "b"
      [] c = "M" -> "m" [] c = "A" -> "a" [] c = "S" -> "s" [] c = "T" -> "t"
      [] c = "R" -> "r" [] c = "D" -> "d" [] c = "X" -> "x"
      [] OTHER -> c

\* for (auto& c : ext) c = towlower(c);
LowerAll(s) == [i \in 1..Len(s) |-> towlower(s[i])]

\* Index of the last occurrence of c in s, 0 when there is none (npos).
find_last_of(s, c) ==
    LET hits == {i \in 1..Len(s) : s[i] = c}
    IN IF hits = {} THEN 0 ELSE CHOOSE i \in hits : \A j \in hits : j <= i

\* Index of the first NUL of s, Len(s)+1 when there is none (the implicit
\* terminator c_str() supplies).
FirstNul(s) ==
    LET hits == {i \in 1..Len(s) : s[i] = NUL}
    IN IF hits = {} THEN Len(s) + 1 ELSE CHOOSE i \in hits : \A j \in hits : i <= j

\* WideToUtf8 with a result one unit too short.
WideToUtf8_short(wide) ==
    IF wide = <<>> THEN <<>> ELSE SubSeq(wide, 1, FirstNul(wide) - 2)

\* WideToUtf8: empty for an empty string; otherwise the conversion of
\* wide.c_str() with length -1, i.e. of the units before the first NUL
\* (result has size - 1 units, the terminator is dropped).
WideToUtf8(wide) ==
    IF wide = <<>> THEN <<>> ELSE SubSeq(wide, 1, FirstNul(wide) - 1)

\* The directory entry a path names: what follows its last separator.
EntryOf(path, sep) == SubSeq(path, find_last_of(path, sep) + 1, Len(path))

(***************************************************************************)
(* Program constants.                                                      *)
(***************************************************************************)
TEMP_FILE_PREFIX == <<"p", "a", "s", "t", "e", "_">>
kTempFilePrefix == <<"p", "a", "s", "t", "e", "_">>
nullptr == "nullptr"
sink == "sink"

\* g_get_tmp_dir() and GetTempPathW() (the latter ends with a backslash)
g_get_tmp_dir == <<"/", "t">>
GetTempPath == <<"T", "\\">>

(***************************************************************************)
(* Inputs: what the operating system hands the plugin.                     *)
(***************************************************************************)
\* Clock readings (milliseconds) and random suffixes used for staged names.
Millis == {12}
Randoms == 0..MaxRandom

\* Outcome of one attempt to write a staged file: failure, or success with
\* the clock reading and random number the name was built from.
SaveOutcomes ==
    {[ok |-> FALSE, ms |-> 12, rnd |-> 0]}
        \cup {[ok |-> TRUE, ms |-> m, rnd |-> r] : m \in Millis, r \in Randoms}

\* Clipboard texts (no NUL inside: they are C strings).
Texts == {<<"h", "i">>, <<"A">>}

\* An optional value: <<>> is a null pointer, <<v>> a pointer to v.
Opt(S) == {<<>>} \cup {<<v>> : v \in S}

RECURSIVE SeqsUpTo(_, _)
SeqsUpTo(S, n) ==
    IF n = 0 THEN {<<>>}
    ELSE LET shorter == SeqsUpTo(S, n - 1)
         IN shorter \cup {Append(s, x) : s \in {t \in shorter : Len(t) = n - 1}, x \in S}

\* Names present in the temp directory before the plugin stages anything:
\* a file of another program that carries the prefix, one whose name differs
\* from the prefix in case only, and one without the prefix.
OtherNames ==
    { <<"p", "a", "s", "t", "e", "_", "x">>,
      <<"P", "a", "s", "t", "e", "_", "y">>,
      <<"p", "a", "s", "t", "e">> }

(***************************************************************************)
(* Outbound events.                                                        *)
(***************************************************************************)
TextEvent(text) ==
    [type |-> "text", value |-> text, uris |-> <<>>, mimeTypes |-> <<>>]

ImageEvent(uris, mime_types) ==
    [type |-> "images", value |-> <<>>, uris |-> uris, mimeTypes |-> mime_types]

UnsupportedEvent ==
    [type |-> "unsupported", value |-> <<>>, uris |-> <<>>, mimeTypes |-> <<>>]

\* What one clipboard check did: the events handed to the send functions
\* (sent), the events that reached the sink (pushed), the paths written by
\* staging in order (staged), the steps taken (trace), and whether an
\* exception left the function (raised).
Outcome(sent, pushed, staged, trace, raised) ==
    [sent |-> sent, pushed |-> pushed, staged |-> staged, trace |-> trace,
     raised |-> raised]

(***************************************************************************)
(* Linux plugin.                                                           *)
(***************************************************************************)
\* struct utsname as uname() fills it; all fields stay empty when it fails.
Utsnames ==
    {[sysname |-> <<>>, nodename |-> <<>>, release |-> <<>>, version |-> <<>>,
      machine |-> <<>>]}
        \cup {[sysname |-> <<"L">>, nodename |-> <<"h">>, release |-> r,
               version |-> v, machine |-> <<"x">>] :
                  r \in {<<"6", ".", "1">>, <<"5">>},
                  v \in {<<"#", "1">>, <<"6", ".", "1">>}}

\* The version string built from the release field.
get_platform_version_release(uname_data) ==
    <<"L", "i", "n", "u", "x", " ">> \o uname_data.release

\* g_strdup_printf("Linux %s", uname_data.version)
get_platform_version(uname_data) ==
    <<"L", "i", "n", "u", "x", " ">> \o uname_data.version

\* The URIs a clipboard URI list can hold: one that is no local file
\* (g_filename_from_uri gives NULL), a local file gdk-pixbuf cannot decode,
\* and a local image file.
UriKinds == {"remote", "file_other", "file_image"}

\* The clipboard as the GTK calls report it.  A format that is not available
\* is never read, so its data is left null.
LinuxSnapshots ==
    {s \in [image_available : BOOLEAN, pixbuf : BOOLEAN,
            text_available : BOOLEAN, text : Opt(Texts),
            uris_available : BOOLEAN, uris : Opt(SeqsUpTo(UriKinds, MaxUris))] :
        /\ ~s.image_available => ~s.pixbuf
        /\ ~s.text_available => s.text = <<>>
        /\ ~s.uris_available => s.uris = <<>>}

\* save_temp_file: the path written, or null (<<>>) when gdk_pixbuf_save fails.
save_temp_file(save, extension) ==
    IF save.ok
    THEN << g_get_tmp_dir \o <<"/">> \o TEMP_FILE_PREFIX \o Digits(save.ms)
            \o <<"_">> \o Digits(save.rnd) \o <<".">> \o extension >>
    ELSE <<>>

send_text_event(self, text) ==
    IF self = nullptr THEN <<>> ELSE <<TextEvent(text)>>

send_image_event(self, uris, mime_types) ==
    IF self = nullptr THEN <<>> ELSE <<ImageEvent(uris, mime_types)>>

\* send_unsupported_event without the null check on the sink.
send_unsupported_event_always(self) == <<UnsupportedEvent>>

send_unsupported_event(self) ==
    IF self = nullptr THEN <<>> ELSE <<UnsupportedEvent>>

RECURSIVE UriLoop_break(_, _, _)
\* The URI loop leaving at the first entry that yields no staged file.
UriLoop_break(uris, saves, i) ==
    IF i > Len(uris) THEN <<>>
    ELSE LET path == IF uris[i] = "file_image"
                     THEN save_temp_file(saves[i], <<"p", "n", "g">>)
                     ELSE <<>>
         IN IF path = <<>> THEN <<>>
            ELSE path \o UriLoop_break(uris, saves, i + 1)

RECURSIVE UriLoop(_, _, _)
\* The for loop over the URI list, from entry i on: the staged paths in order.
\* saves[i] is the outcome of the save attempted for entry i.
UriLoop(uris, saves, i) ==
    IF i > Len(uris) THEN <<>>
    ELSE LET filename == uris[i] # "remote"
             pixbuf == filename /\ uris[i] = "file_image"
             path == IF pixbuf THEN save_temp_file(saves[i], <<"p", "n", "g">>)
                     ELSE <<>>
         IN path \o UriLoop(uris, saves, i + 1)

\* A mime type per staged path: mime_types.push_back("image/png")
\* One "image/png" entry, whatever the number of paths.
PngTypes_once(paths) == <<"image/png">>

PngTypes(paths) == [i \in 1..Len(paths) |-> "image/png"]

\* process_clipboard, from "Check for URIs" on: the URI category, then the
\* unsupported event.  trace holds the categories looked at before.
check_uris(self, snap, saves, trace) ==
    LET image_uris ==
            IF snap.uris_available /\ snap.uris # <<>>
            THEN UriLoop(snap.uris[1], saves, 1)
            ELSE <<>>
        urisTrace == IF snap.uris_available THEN <<"uris">> ELSE <<>>
    IN IF image_uris # <<>>
       THEN Outcome(<<ImageEvent(image_uris, PngTypes(image_uris))>>,
                    send_image_event(self, image_uris, PngTypes(image_uris)),
                    image_uris, trace \o urisTrace, FALSE)
       ELSE Outcome(<<UnsupportedEvent>>, send_unsupported_event(self),
                    <<>>, trace \o urisTrace, FALSE)

\* process_clipboard, from "Check for text" on.
check_text(self, snap, saves, trace) ==
    LET textTrace == IF snap.text_available THEN <<"text">> ELSE <<>>
    IN IF snap.text_available /\ snap.text # <<>>
       THEN Outcome(<<TextEvent(snap.text[1])>>,
                    send_text_event(self, snap.text[1]),
                    <<>>, trace \o textTrace, FALSE)
       ELSE check_uris(self, snap, saves, trace \o textTrace)

\* process_clipboard with the text category looked at before the image.
process_clipboard_text_first(self, snap, saves) ==
    LET path ==
            IF snap.image_available /\ snap.pixbuf
            THEN save_temp_file(saves[0], <<"p", "n", "g">>)
            ELSE <<>>
    IN IF snap.text_available /\ snap.text # <<>>
       THEN Outcome(<<TextEvent(snap.text[1])>>,
                    send_text_event(self, snap.text[1]), <<>>, <<"text">>, FALSE)
       ELSE IF path # <<>>
       THEN Outcome(<<ImageEvent(path, PngTypes(path))>>,
                    send_image_event(self, path, PngTypes(path)),
                    path, <<"text", "image">>, FALSE)
       ELSE check_uris(self, snap, saves, <<"text", "image">>)

\* process_clipboard: the image category first.  saves[0] is the outcome of
\* staging the clipboard image.
process_clipboard(self, snap, saves) ==
    LET path ==
            IF snap.image_available /\ snap.pixbuf
            THEN save_temp_file(saves[0], <<"p", "n", "g">>)
            ELSE <<>>
        imageTrace == IF snap.image_available THEN <<"image">> ELSE <<>>
    IN IF path # <<>>
       THEN Outcome(<<ImageEvent(path, PngTypes(path))>>,
                    send_image_event(self, path, PngTypes(path)),
                    path, imageTrace, FALSE)
       ELSE check_text(self, snap, saves, imageTrace)

\* clear_temp_files comparing against a longer prefix than staging uses.
clear_temp_files_wrong_prefix(dir, opened, failed) ==
    IF opened
    THEN dir \ {name \in dir :
                  g_str_has_prefix(name, TEMP_FILE_PREFIX \o <<"x">>)
                  /\ name \notin failed}
    ELSE dir

\* clear_temp_files: nothing happens when the directory cannot be opened;
\* otherwise every entry with the prefix is unlinked.  failed holds the
\* entries whose g_unlink fails (its result is ignored).
clear_temp_files(dir, opened, failed) ==
    IF opened
    THEN dir \ {name \in dir : g_str_has_prefix(name, TEMP_FILE_PREFIX)
                               /\ name \notin failed}
    ELSE dir

(***************************************************************************)
(* Windows plugin.                                                         *)
(***************************************************************************)
\* What the version helpers report about the running system.
WindowsVersions == {"10", "8", "7", "older"}

\* The getPlatformVersion branch of HandleMethodCall.
WindowsVersionString(os) ==
    <<"W", "i", "n", "d", "o", "w", "s", " ">>
        \o (IF os = "10" THEN <<"1", "0", "+">>
            ELSE IF os = "8" THEN <<"8">>
            ELSE IF os = "7" THEN <<"7">>
            ELSE <<>>)

\* Paths a CF_HDROP list can hold (as DragQueryFileW reports them, without
\* terminator): an upper-case image extension, a non-image extension and a
\* name without any '.'.
DropNames ==
    { <<"a", ".", "J", "P", "G">>,
      <<"b", ".", "t", "x", "t">>,
      <<"R", "E", "A", "D", "M", "E">> }

\* The clipboard as the Win32 calls report it.  open is the result of
\* OpenClipboard; nothing can be read when it fails.  hBitmap is whether
\* GetClipboardData(CF_BITMAP) gives a handle; unicode / ansi / hdrop are
\* null when GetClipboardData or GlobalLock gives null.  The system offers
\* CF_TEXT and CF_UNICODETEXT together (it converts one into the other), so
\* both are available or neither, and both hold the same text.
WindowsSnapshots ==
    {s \in [open : BOOLEAN, bitmap_available : BOOLEAN, hBitmap : BOOLEAN,
            unicode_available : BOOLEAN, unicode : Opt(Texts),
            ansi_available : BOOLEAN, ansi : Opt(Texts),
            hdrop_available : BOOLEAN,
            hdrop : Opt(SeqsUpTo(DropNames, MaxDropFiles))] :
        /\ ~s.bitmap_available => ~s.hBitmap
        /\ ~s.unicode_available => s.unicode = <<>>
        /\ ~s.ansi_available => s.ansi = <<>>
        /\ ~s.hdrop_available => s.hdrop = <<>>
        /\ s.unicode_available = s.ansi_available
        /\ (s.unicode # <<>> /\ s.ansi # <<>>) => s.unicode = s.ansi
        /\ ~s.open => /\ ~s.bitmap_available /\ ~s.unicode_available
                      /\ ~s.hdrop_available}

\* SaveBitmapToFile: the UTF-8 path written, or the empty string when the
\* temp path, the bitmap conversion, the encoder lookup or the save fails.
SaveBitmapToFile(hBitmap, save) ==
    IF ~hBitmap \/ ~save.ok THEN <<>>
    ELSE WideToUtf8(GetTempPath \o <<"\\">> \o kTempFilePrefix \o Digits(save.ms)
                    \o <<"_">> \o Digits(save.rnd) \o <<".", "p", "n", "g">>)

SendTextEvent(self, text) ==
    IF self = nullptr THEN <<>> ELSE <<TextEvent(text)>>

SendImageEvent(self, uris, mime_types) ==
    IF self = nullptr THEN <<>> ELSE <<ImageEvent(uris, mime_types)>>

\* SendUnsupportedEvent with the test of the sink inverted.
SendUnsupportedEvent_inverted(self) ==
    IF self # nullptr THEN <<>> ELSE <<UnsupportedEvent>>

SendUnsupportedEvent(self) ==
    IF self = nullptr THEN <<>> ELSE <<UnsupportedEvent>>

\* The buffer DragQueryFileW fills: size = length + 1 units, the name
\* followed by its terminator, all of them part of the std::wstring.
DragQueryFileW(name) == name \o <<NUL>>

\* ext == L".png" etc.: a std::wstring equals a literal when it has the
\* literal's units and nothing else.
MimeTypeOf(ext) ==
    IF ext = <<".", "p", "n", "g">> THEN "image/png"
    ELSE IF ext = <<".", "j", "p", "g">> \/ ext = <<".", "j", "p", "e", "g">>
    THEN "image/jpeg"
    ELSE IF ext = <<".", "g", "i", "f">> THEN "image/gif"
    ELSE IF ext = <<".", "b", "m", "p">> THEN "image/bmp"
    ELSE ""

RECURSIVE DropLoop(_, _)
\* The for loop over the dropped files, from entry i on.  substr(npos)
\* throws std::out_of_range when the name holds no '.'; nothing catches it.
DropLoop(files, i) ==
    IF i > Len(files) THEN [raised |-> FALSE, uris |-> <<>>, mime_types |-> <<>>]
    ELSE LET filename == DragQueryFileW(files[i])
             pos == find_last_of(filename, ".")
         IN IF pos = 0
            THEN [raised |-> TRUE, uris |-> <<>>, mime_types |-> <<>>]
            ELSE LET ext == LowerAll(SubSeq(filename, pos, Len(filename)))
                     mime_type == MimeTypeOf(ext)
                     rest == DropLoop(files, i + 1)
                 IN IF mime_type # ""
                    THEN [raised |-> rest.raised,
                          uris |-> <<WideToUtf8(filename)>> \o rest.uris,
                          mime_types |-> <<mime_type>> \o rest.mime_types]
                    ELSE rest

\* ProcessClipboard.  The trace lists the clipboard calls and the send made.
ProcessClipboard(self, snap, save) ==
    LET path == IF snap.bitmap_available
                THEN SaveBitmapToFile(snap.hBitmap, save) ELSE <<>>
        bitmapTrace == IF snap.bitmap_available THEN <<"bitmap">> ELSE <<>>
        unicodeHit == snap.unicode_available /\ snap.unicode # <<>>
        unicodeTrace == IF snap.unicode_available THEN <<"unicode">> ELSE <<>>
        ansiHit == snap.ansi_available /\ snap.ansi # <<>>
        ansiTrace == IF snap.ansi_available THEN <<"ansi">> ELSE <<>>
        dropHit == snap.hdrop_available /\ snap.hdrop # <<>>
        drop == IF dropHit THEN DropLoop(snap.hdrop[1], 1)
                ELSE [raised |-> FALSE, uris |-> <<>>, mime_types |-> <<>>]
        dropTrace == IF snap.hdrop_available THEN <<"hdrop">> ELSE <<>>
    IN IF ~snap.open
       THEN Outcome(<<UnsupportedEvent>>, SendUnsupportedEvent(self), <<>>,
                    <<"OpenClipboard:fail", "SendUnsupportedEvent">>, FALSE)
       ELSE IF path # <<>>
       THEN Outcome(<<ImageEvent(<<path>>, <<"image/png">>)>>,
                    SendImageEvent(self, <<path>>, <<"image/png">>), <<path>>,
                    <<"OpenClipboard">> \o bitmapTrace
                        \o <<"CloseClipboard", "SendImageEvent">>, FALSE)
       ELSE IF unicodeHit
       THEN Outcome(<<TextEvent(WideToUtf8(snap.unicode[1]))>>,
                    SendTextEvent(self, WideToUtf8(snap.unicode[1])), <<>>,
                    <<"OpenClipboard">> \o bitmapTrace \o unicodeTrace
                        \o <<"CloseClipboard", "SendTextEvent">>, FALSE)
       ELSE IF ansiHit
       THEN Outcome(<<TextEvent(snap.ansi[1])>>,
                    SendTextEvent(self, snap.ansi[1]), <<>>,
                    <<"OpenClipboard">> \o bitmapTrace \o unicodeTrace \o ansiTrace
                        \o <<"CloseClipboard", "SendTextEvent">>, FALSE)
       ELSE IF drop.raised
       THEN Outcome(<<>>, <<>>, <<>>,
                    <<"OpenClipboard">> \o bitmapTrace \o unicodeTrace \o ansiTrace
                        \o dropTrace \o <<"throw">>, TRUE)
       ELSE IF drop.uris # <<>>
       THEN Outcome(<<ImageEvent(drop.uris, drop.mime_types)>>,
                    SendImageEvent(self, drop.uris, drop.mime_types), <<>>,
                    <<"OpenClipboard">> \o bitmapTrace \o unicodeTrace \o ansiTrace
                        \o dropTrace \o <<"CloseClipboard", "SendImageEvent">>, FALSE)
       ELSE Outcome(<<UnsupportedEvent>>, SendUnsupportedEvent(self), <<>>,
                    <<"OpenClipboard">> \o bitmapTrace \o unicodeTrace \o ansiTrace
                        \o dropTrace \o <<"CloseClipboard", "SendUnsupportedEvent">>,
                    FALSE)

\* The search with the pattern <temp path>* : every entry matches.
FindFiles_all(dir, prefix) == dir

\* FindFirstFileW / FindNextFileW with the pattern <temp path>paste_*: the
\* entries of the temp directory whose name starts with the prefix, compared
\* without regard to case as Windows file-name matching does.
FindFiles(dir, prefix) ==
    {name \in dir : g_str_has_prefix(LowerAll(name), LowerAll(prefix))}

\* ClearTempFiles: nothing happens when the temp path cannot be obtained;
\* otherwise every match is deleted.  failed holds the entries whose
\* DeleteFileW fails (its result is ignored).
ClearTempFiles(dir, temp_path_ok, failed) ==
    IF ~temp_path_ok THEN dir
    ELSE dir \ (FindFiles(dir, kTempFilePrefix) \ failed)

(***************************************************************************)
(* Inputs of one clipboard check: the snapshot and the outcomes of the     *)
(* save attempts it can make.                                              *)
(***************************************************************************)
SaveFails == [ok |-> FALSE, ms |-> 12, rnd |-> 0]

RECURSIVE SavesFor(_, _)
\* The outcome sequences of length n in which a save that is never attempted
\* (its candidate is not in used) is left at the failure value.
SavesFor(used, n) ==
    IF n = 0 THEN {<<>>}
    ELSE {Append(s, o) : s \in SavesFor(used, n - 1),
                         o \in IF n \in used THEN SaveOutcomes ELSE {SaveFails}}

\* Candidate 1 is the clipboard image, candidate i + 1 the i-th URI.
LinuxCandidates(snap) ==
    (IF snap.image_available /\ snap.pixbuf THEN {1} ELSE {})
        \cup (IF snap.uris = <<>> THEN {}
              ELSE {i + 1 : i \in {j \in 1..Len(snap.uris[1]) :
                                      snap.uris[1][j] = "file_image"}})

\* saves[0] of process_clipboard is candidate 1, saves[i] candidate i + 1.
LinuxChecks ==
    UNION {{[snap |-> s, saves |-> [i \in 0..MaxUris |-> v[i + 1]]] :
                v \in SavesFor(LinuxCandidates(s), MaxUris + 1)} :
           s \in LinuxSnapshots}

WindowsChecks ==
    UNION {{[snap |-> s, saves |-> <<o>>] :
                o \in IF s.bitmap_available /\ s.hBitmap THEN SaveOutcomes
                      ELSE {SaveFails}} :
           s \in WindowsSnapshots}

(***************************************************************************)
(* The plugin as a state machine.                                          *)
(*   platform    which plugin runs                                         *)
(*   event_sink  the current notification sink, nullptr when none          *)
(*   tmp         the names of the entries of the temp directory            *)
(*   pc          idle: no method call in progress; responded: the handler  *)
(*               has run and its response is on its way; terminated: an    *)
(*               exception left the handler                                *)
(*   call        the method call last handled and what the handler did     *)
(***************************************************************************)
Methods ==
    {"getPlatformVersion", "clearTempFiles", "registerView", "unregisterView",
     "checkClipboard", "getClipboardContent", "CheckClipboard"}

NoCall ==
    [method |-> "", response |-> "", value |-> <<>>, self |-> nullptr,
     check |-> <<>>, sent |-> <<>>, pushed |-> <<>>, staged |-> <<>>,
     trace |-> <<>>, swept |-> FALSE, removed |-> {}, failed |-> {},
     uname_data |-> <<>>]

Init ==
    /\ platform \in {"linux", "windows"}
    /\ event_sink = nullptr
    /\ tmp = OtherNames
    /\ pc = "idle"
    /\ call = NoCall

\* The record of a handled call: the sink the handler saw, its response and
\* what it did.
Handled(method, response, fields) ==
    [f \in DOMAIN NoCall |->
        IF f = "method" THEN method
        ELSE IF f = "response" THEN response
        ELSE IF f = "self" THEN event_sink
        ELSE IF f \in DOMAIN fields THEN fields[f]
        ELSE NoCall[f]]

\* fl_method_call_respond / result->Success / result->NotImplemented
Respond(method, response, fields) ==
    /\ call' = Handled(method, response, fields)
    /\ pc' = "responded"

\* An exception leaves the handler: no response is given, and nothing on
\* the way to the host catches it.
Raise(method, fields) ==
    /\ call' = Handled(method, "exception", fields)
    /\ pc' = "terminated"

\* A comparison of method names that ignores case.
strcmp_nocase(a, b) ==
    IF a = b \/ {a, b} = {"checkClipboard", "CheckClipboard"} THEN 0 ELSE 1

\* strcmp(a, b) as the handler uses it: 0 exactly when the names are equal.
strcmp(a, b) == IF a = b THEN 0 ELSE 1

\* The files a check wrote are entries of the temp directory.
Written(staged, sep) == {EntryOf(staged[i], sep) : i \in 1..Len(staged)}

\* The Linux method-call handler.
flutter_paste_input_plugin_handle_method_call ==
    /\ platform = "linux"
    /\ pc = "idle"
    /\ \E method \in Methods :
         IF strcmp(method, "getPlatformVersion") = 0
         THEN \E u \in Utsnames :
                /\ Respond(method, "success",
                           [value |-> get_platform_version(u), uname_data |-> <<u>>])
                /\ UNCHANGED <<platform, event_sink, tmp>>
         ELSE IF strcmp(method, "clearTempFiles") = 0
         THEN \E opened \in BOOLEAN :
              \E failed \in IF opened
                            THEN SUBSET {n \in tmp : g_str_has_prefix(n, TEMP_FILE_PREFIX)}
                            ELSE {{}} :
                /\ tmp' = clear_temp_files(tmp, opened, failed)
                /\ Respond(method, "success",
                           [swept |-> opened, failed |-> failed,
                            removed |-> tmp \ clear_temp_files(tmp, opened, failed)])
                /\ UNCHANGED <<platform, event_sink>>
         ELSE IF strcmp(method, "registerView") = 0
                 \/ strcmp(method, "unregisterView") = 0
         THEN /\ Respond(method, "success", [value |-> <<>>])
              /\ UNCHANGED <<platform, event_sink, tmp>>
         ELSE IF strcmp(method, "checkClipboard") = 0
         THEN \E in \in LinuxChecks :
                LET out == process_clipboard(event_sink, in.snap, in.saves)
                IN /\ tmp' = tmp \cup Written(out.staged, "/")
                   /\ Respond(method, "success",
                              [check |-> <<in>>, sent |-> out.sent,
                               pushed |-> out.pushed, staged |-> out.staged,
                               trace |-> out.trace])
                   /\ UNCHANGED <<platform, event_sink>>
         ELSE /\ Respond(method, "not_implemented", [value |-> <<>>])
              /\ UNCHANGED <<platform, event_sink, tmp>>

\* The Windows method-call handler.  An exception that leaves
\* ProcessClipboard leaves HandleMethodCall too: no response is given.
HandleMethodCall ==
    /\ platform = "windows"
    /\ pc = "idle"
    /\ \E method \in Methods :
         IF method = "getPlatformVersion"
         THEN \E os \in WindowsVersions :
                /\ Respond(method, "success", [value |-> WindowsVersionString(os)])
                /\ UNCHANGED <<platform, event_sink, tmp>>
         ELSE IF method = "clearTempFiles"
         THEN \E temp_path_ok \in BOOLEAN :
              \E failed \in IF temp_path_ok
                            THEN SUBSET FindFiles(tmp, kTempFilePrefix)
                            ELSE {{}} :
                /\ tmp' = ClearTempFiles(tmp, temp_path_ok, failed)
                /\ Respond(method, "success",
                           [swept |-> temp_path_ok, failed |-> failed,
                            removed |-> tmp \ ClearTempFiles(tmp, temp_path_ok, failed)])
                /\ UNCHANGED <<platform, event_sink>>
         ELSE IF method = "registerView" \/ method = "unregisterView"
         THEN /\ Respond(method, "success", [value |-> <<>>])
              /\ UNCHANGED <<platform, event_sink, tmp>>
         ELSE IF method = "checkClipboard"
         THEN \E in \in WindowsChecks :
                LET out == ProcessClipboard(event_sink, in.snap, in.saves[1])
                IN /\ tmp' = tmp \cup Written(out.staged, "\\")
                   /\ IF out.raised
                      THEN Raise(method, [check |-> <<in>>, trace |-> out.trace])
                      ELSE Respond(method, "success",
                                   [check |-> <<in>>, sent |-> out.sent,
                                    pushed |-> out.pushed, staged |-> out.staged,
                                    trace |-> out.trace])
                   /\ UNCHANGED <<platform, event_sink>>
         ELSE /\ Respond(method, "not_implemented", [value |-> <<>>])
              /\ UNCHANGED <<platform, event_sink, tmp>>

\* Event channel listen callback (Linux).
on_listen ==
    /\ platform = "linux"
    /\ pc # "terminated"
    /\ event_sink' = sink
    /\ UNCHANGED <<platform, tmp, pc, call>>

\* Event channel cancel callback (Linux).
on_cancel ==
    /\ platform = "linux"
    /\ pc # "terminated"
    /\ event_sink' = nullptr
    /\ UNCHANGED <<platform, tmp, pc, call>>

SetEventSink ==
    /\ platform = "windows"
    /\ pc # "terminated"
    /\ event_sink' = sink
    /\ UNCHANGED <<platform, tmp, pc, call>>

ClearEventSink ==
    /\ platform = "windows"
    /\ pc # "terminated"
    /\ event_sink' = nullptr
    /\ UNCHANGED <<platform, tmp, pc, call>>

\* The response and the pushed events reach the Dart side; the method call
\* object is released and the next call can be handled.
Return ==
    /\ pc = "responded"
    /\ pc' = "idle"
    /\ call' = NoCall
    /\ UNCHANGED <<platform, event_sink, tmp>>

Next ==
    \/ flutter_paste_input_plugin_handle_method_call
    \/ HandleMethodCall
    \/ on_listen
    \/ on_cancel
    \/ SetEventSink
    \/ ClearEventSink
    \/ Return

Spec == Init /\ [][Next]_vars

(***************************************************************************)
(* Vocabulary of the properties.                                           *)
(***************************************************************************)
\* A checkClipboard call has been handled (or has been left by an exception).
Checked == pc \in {"responded", "terminated"} /\ call.method = "checkClipboard"

Linux == platform = "linux"
Windows == platform = "windows"

Snap == call.check[1].snap
Saves == call.check[1].saves

\* The handler saw a registered listener.
Listening == call.self # nullptr

\* The events a listener gets are the events the check handed over.
PushedIsSent == call.pushed = (IF Listening THEN call.sent ELSE <<>>)

\* The snapshot offers an image / a text / a file list.
ImageAvailable ==
    IF Linux THEN Snap.image_available ELSE Snap.open /\ Snap.bitmap_available

TextAvailable ==
    IF Linux THEN Snap.text_available
    ELSE Snap.open /\ (Snap.unicode_available \/ Snap.ansi_available)

FilesAvailable ==
    IF Linux THEN Snap.uris_available ELSE Snap.open /\ Snap.hdrop_available

\* Reading the clipboard image gives a pixbuf / a bitmap handle.
ImageReadable == IF Linux THEN Snap.pixbuf ELSE Snap.hBitmap

\* The clipboard image can be read and the staging of it succeeds.
ImageStages ==
    IF Linux THEN Snap.image_available /\ Snap.pixbuf /\ Saves[0].ok
    ELSE Snap.open /\ Snap.bitmap_available /\ Snap.hBitmap /\ Saves[1].ok

\* The text the snapshot gives when read (<<>> when no read succeeds).
TextRead ==
    IF Linux THEN Snap.text
    ELSE IF Snap.unicode # <<>> THEN Snap.unicode ELSE Snap.ansi

\* The staged path built from a successful save outcome.
LinuxPath(o) ==
    <<"/", "t", "/", "p", "a", "s", "t", "e", "_">> \o Digits(o.ms) \o <<"_">>
        \o Digits(o.rnd) \o <<".", "p", "n", "g">>

WindowsPath(o) ==
    <<"T", "\\", "\\", "p", "a", "s", "t", "e", "_">> \o Digits(o.ms) \o <<"_">>
        \o Digits(o.rnd) \o <<".", "p", "n", "g">>

ImagePath == IF Linux THEN LinuxPath(Saves[0]) ELSE WindowsPath(Saves[1])

\* The names in the temp directory that start with paste_.
PasteFiles(dir) ==
    {name \in dir : Len(name) >= 6 /\ SubSeq(name, 1, 6) = <<"p", "a", "s", "t", "e", "_">>}

C2_ImageOnlyWheneverAvailable ==
    (Checked /\ ImageAvailable /\ ImageReadable /\ TextAvailable /\ TextRead # <<>>) =>
        \A i \in 1..Len(call.pushed) : call.pushed[i].type = "images"

\* C2 amended: with an image and a text available and the image read and
\* staged successfully, the check reports the images event for the staged
\* file and nothing else; no text event is pushed.
C2_ImageOnlyWhenStaged ==
    (Checked /\ ImageAvailable /\ TextAvailable /\ ImageStages) =>
        /\ call.sent = <<ImageEvent(<<ImagePath>>, <<"image/png">>)>>
        /\ PushedIsSent

C2_Witness ==
    /\ Checked /\ ImageAvailable /\ TextAvailable /\ ImageStages
    /\ TextRead # <<>>
    /\ Listening
    /\ Len(call.pushed) = 1 /\ call.pushed[1].type = "images"

(***************************************************************************)
(* C3                                                                      *)
(***************************************************************************)
\* C3: a snapshot that holds only a text t (no image, no file list) gives
\* exactly one text item with value t, pushed to the listener if there is
\* one; no images or unsupported event, and nothing is staged.
C3_OnlyTextGivesText ==
    (Checked /\ ~ImageAvailable /\ ~FilesAvailable /\ TextAvailable
             /\ TextRead # <<>>) =>
        /\ call.sent = <<TextEvent(TextRead[1])>>
        /\ PushedIsSent
        /\ call.staged = <<>>

C3_Witness ==
    /\ Checked /\ Windows /\ ~ImageAvailable /\ ~FilesAvailable
    /\ Snap.unicode = << <<"h", "i">> >>
    /\ Listening
    /\ call.pushed = <<TextEvent(<<"h", "i">>)>>

(***************************************************************************)
(* C4                                                                      *)
(***************************************************************************)
\* C4: a snapshot without image, text and file list gives the unsupported
\* event, pushed to the listener if there is one, and stages no file.
C4_EmptyGivesUnsupported ==
    (Checked /\ ~ImageAvailable /\ ~TextAvailable /\ ~FilesAvailable) =>
        /\ call.sent = <<UnsupportedEvent>>
        /\ PushedIsSent
        /\ call.staged = <<>>
        /\ call.response = "success"

C4_Witness ==
    /\ Checked /\ Windows /\ Snap.open
    /\ ~ImageAvailable /\ ~TextAvailable /\ ~FilesAvailable
    /\ Listening
    /\ call.pushed = <<UnsupportedEvent>>
    /\ call.staged = <<>>

(***************************************************************************)
(* C5                                                                      *)
(***************************************************************************)
\* A clearTempFiles call has been handled.
Swept == pc = "responded" /\ call.method = "clearTempFiles"

\* The sweep began with at least one file staged by the plugin in the temp
\* directory (a name no other program put there).
StagedBeforeSweep == (tmp \cup call.removed) \ OtherNames # {}

\* C5 as stated: after successful stagings followed by a Sweep the temp
\* directory holds no file whose name starts with paste_.
C5_NoPasteFileAfterSweep ==
    (Swept /\ StagedBeforeSweep) => PasteFiles(tmp) = {}

\* C5 amended: after a Sweep that could enumerate the temp directory, the
\* only files left whose name starts with paste_ are those whose deletion
\* failed (none when every deletion succeeded); a Sweep that could not open
\* the directory (Linux) or get the temp path (Windows) removes nothing.
C5_SweepRemovesWhatItCan ==
    Swept =>
        /\ call.swept => PasteFiles(tmp) \subseteq call.failed
        /\ ~call.swept => call.removed = {}

\* A staged file (a name no other program put there) was removed, and no
\* paste_ file is left.
C5_Witness ==
    /\ Swept /\ call.swept /\ call.failed = {}
    /\ \E name \in call.removed : name \notin OtherNames
    /\ PasteFiles(tmp) = {}

(***************************************************************************)
(* C6                                                                      *)
(***************************************************************************)
\* The documented mapping applied to the extension of a dropped path: the
\* part of the path from its last '.' on, compared without regard to case.
ExtensionMime(name) ==
    LET pos == find_last_of(name, ".")
    IN IF pos = 0 THEN ""
       ELSE MimeTypeOf(LowerAll(SubSeq(name, pos, Len(name))))

IsImageName(name) == ExtensionMime(name) # ""

\* The Windows check comes to the file-drop list: no staged bitmap, no text.
DropDecides ==
    /\ Checked /\ Windows /\ Snap.open
    /\ ~ImageStages /\ TextRead = <<>>
    /\ Snap.hdrop # <<>>

\* C6: every dropped path with an image extension (whatever its case) is
\* reported in the images event with the mime type of the mapping, every
\* other path is skipped.
C6_DropClassifiedByExtension ==
    (DropDecides /\ \A i \in 1..Len(Snap.hdrop[1]) :
                       find_last_of(Snap.hdrop[1][i], ".") # 0) =>
        LET images == SelectSeq(Snap.hdrop[1], IsImageName)
        IN call.sent =
             IF images # <<>>
             THEN <<ImageEvent(images,
                               [i \in 1..Len(images) |-> ExtensionMime(images[i])])>>
             ELSE <<UnsupportedEvent>>

(***************************************************************************)
(* C7                                                                      *)
(***************************************************************************)
\* C7: every checkClipboard, whatever the snapshot, ends with the success
\* response and one classification result; no exception leaves the handler.
C7_NoExceptionLeavesCheck ==
    Checked => /\ call.response = "success"
               /\ pc = "responded"
               /\ Len(call.sent) = 1

(***************************************************************************)
(* C8                                                                      *)
(***************************************************************************)
InTrace(step) == \E i \in 1..Len(call.trace) : call.trace[i] = step

\* The entries of the Linux URI list that decode and whose save succeeds.
StagedEntries ==
    {i \in 1..Len(Snap.uris[1]) : Snap.uris[1][i] = "file_image" /\ Saves[i].ok}

\* Their staged paths in list order.
StagedInOrder ==
    [k \in 1..Cardinality(StagedEntries) |->
        LinuxPath(Saves[CHOOSE i \in StagedEntries :
                           Cardinality({j \in StagedEntries : j <= i}) = k])]

\* C8: an image that is available but cannot be read or staged does not end
\* the check: the text category is looked at and decides when a text can be
\* read, otherwise the file category is looked at; and a Linux URI list
\* reports exactly the files that decode and stage, in list order.
C8_FailedCandidateIsSkipped ==
    /\ (Checked /\ ImageAvailable /\ ~ImageStages) =>
          /\ TextAvailable => InTrace(IF Linux THEN "text" ELSE "unicode")
          /\ TextRead # <<>> => /\ call.sent = <<TextEvent(TextRead[1])>>
                                /\ PushedIsSent
          /\ (TextRead = <<>> /\ FilesAvailable) =>
                InTrace(IF Linux THEN "uris" ELSE "hdrop")
    /\ (Checked /\ Linux /\ ~ImageStages /\ TextRead = <<>> /\ Snap.uris # <<>>) =>
          /\ call.staged = StagedInOrder
          /\ call.sent = IF StagedInOrder # <<>>
                         THEN <<ImageEvent(StagedInOrder,
                                           [k \in 1..Len(StagedInOrder) |-> "image/png"])>>
                         ELSE <<UnsupportedEvent>>
          /\ PushedIsSent

\* The image cannot be staged, no text is read, the first file of the list
\* fails to stage and the second is reported.
C8_Witness ==
    /\ Checked /\ Linux /\ Listening
    /\ Snap.image_available /\ Snap.pixbuf /\ ~Saves[0].ok
    /\ TextRead = <<>>
    /\ Snap.uris = << <<"file_image", "file_image">> >>
    /\ ~Saves[1].ok /\ Saves[2].ok
    /\ call.pushed = <<ImageEvent(<<LinuxPath(Saves[2])>>, <<"image/png">>)>>

(***************************************************************************)
(* C9                                                                      *)
(***************************************************************************)
KnownMethods ==
    {"getPlatformVersion", "clearTempFiles", "registerView", "unregisterView",
     "checkClipboard"}

\* C9: handling a command with any other name gives the not-implemented
\* response, pushes no event, stages and deletes no temp file and leaves the
\* event sink as it was.
C9_UnknownIsNotImplemented ==
    [][(pc = "idle" /\ pc' # "idle" /\ call'.method \notin KnownMethods) =>
          /\ pc' = "responded"
          /\ call'.response = "not_implemented"
          /\ call'.sent = <<>> /\ call'.pushed = <<>>
          /\ call'.staged = <<>> /\ call'.removed = {}
          /\ tmp' = tmp
          /\ event_sink' = event_sink]_vars

C9_Witness ==
    /\ pc = "responded" /\ call.method = "CheckClipboard"
    /\ call.response = "not_implemented"
    /\ call.self = sink /\ call.pushed = <<>>

(***************************************************************************)
(* C10                                                                     *)
(***************************************************************************)
LinuxVersionAnswered ==
    /\ pc = "responded" /\ Linux /\ call.method = "getPlatformVersion"

\* C10 as stated: the answer is "Linux " followed by the release field of
\* the uname data.
C10_ReleaseField ==
    LinuxVersionAnswered =>
        call.value = <<"L", "i", "n", "u", "x", " ">> \o call.uname_data[1].release

\* C10 amended: the answer is "Linux " followed by the version field of the
\* uname data (the kernel build version), not the release field.
C10_VersionField ==
    LinuxVersionAnswered =>
        /\ call.response = "success"
        /\ call.value = <<"L", "i", "n", "u", "x", " ">> \o call.uname_data[1].version

C10_Witness ==
    /\ LinuxVersionAnswered
    /\ call.uname_data[1].release = <<"6", ".", "1">>
    /\ call.uname_data[1].version = <<"#", "1">>
    /\ call.value = <<"L", "i", "n", "u", "x", " ", "#", "1">>

(***************************************************************************)
(* C11                                                                     *)
(***************************************************************************)
\* The name starts with paste_, letter for letter.
StartsWithPrefix(name) == PasteFiles({name}) # {}

\* The name starts with paste_ when the case of its letters is ignored.
StartsWithPrefixAnyCase(name) == PasteFiles({LowerAll(name)}) # {}

\* The entry of the temp directory that lacks the prefix, and the one that
\* differs from it in case only.
PlainName == <<"p", "a", "s", "t", "e">>
CaseName == <<"P", "a", "s", "t", "e", "_", "y">>

QuietCheck ==
    /\ call.pushed = <<>>
    /\ call.response = "success"
    /\ ImageStages =>
          /\ call.staged = <<ImagePath>>
          /\ Written(call.staged, IF Linux THEN "/" ELSE "\\") \subseteq PasteFiles(tmp)

\* C12: events reach a listener only; a checkClipboard handled while no
\* listener is registered pushes no event, yet answers success and still
\* stages the clipboard image to a paste_ temp file.
C12_NoListenerStillSucceedsAndStages ==
    /\ Checked /\ Len(call.pushed) > 0 => Listening
    /\ Checked /\ ~Listening => QuietCheck

\* The same for every check that is not left by the exception of C7.
C12_QuietUnlessThrown ==
    /\ Checked /\ Len(call.pushed) > 0 => Listening
    /\ Checked /\ ~Listening /\ pc = "responded" => QuietCheck

\* A check without a listener answered success, pushed nothing and staged
\* the clipboard image.
C12_QuietStagedReached ==
    /\ Checked /\ ~Listening /\ pc = "responded"
    /\ ImageStages
    /\ call.staged = <<ImagePath>>
    /\ call.pushed = <<>>

(***************************************************************************)
(* C13                                                                     *)
(***************************************************************************)
\* The events the handled check built and the events a listener got.
EventsOfCheck ==
    {call.sent[i] : i \in 1..Len(call.sent)}
        \cup {call.pushed[i] : i \in 1..Len(call.pushed)}

ImageMimeTypes == {"image/png", "image/jpeg", "image/gif", "image/bmp"}

\* The check staged what it reports (the clipboard image or copies of the
\* files of a Linux URI list), as opposed to naming dropped originals.
ReportsStaged == Linux \/ (Windows /\ ImageStages)

\* C13: every images event has a non-empty uris list and a mimeTypes list of
\* the same length whose entry i is the mime type of uri i, one of image/png,
\* image/jpeg, image/gif, image/bmp; it is image/png throughout on Linux and
\* for a Windows clipboard bitmap.
C13_ImageEventWellFormed ==
    Checked =>
        \A ev \in EventsOfCheck :
            ev.type = "images" =>
                /\ ev.uris # <<>>
                /\ Len(ev.mimeTypes) = Len(ev.uris)
                /\ \A i \in 1..Len(ev.uris) :
                      /\ ev.mimeTypes[i] \in ImageMimeTypes
                      /\ ev.mimeTypes[i] = ExtensionMime(ev.uris[i])
                      /\ ReportsStaged => ev.mimeTypes[i] = "image/png"

\* A listener got an images event with two uris from a Linux check.
C13_TwoUrisPushed ==
    /\ Checked /\ Linux /\ Listening
    /\ Len(call.pushed) = 1
    /\ call.pushed[1].type = "images"
    /\ Len(call.pushed[1].uris) = 2
    /\ Len(call.pushed[1].mimeTypes) = 2

(***************************************************************************)
(* C14                                                                     *)
(***************************************************************************)
\* The positions of a step in the trace of the handled check.
StepsAt(step) == {i \in 1..Len(call.trace) : call.trace[i] = step}

SendSteps == {"SendImageEvent", "SendTextEvent", "SendUnsupportedEvent"}

\* C14: a Windows check never leaves the clipboard open.  When OpenClipboard
\* succeeded, CloseClipboard is called exactly once, and before the event is
\* handed over; when it failed, CloseClipboard is not called and the
\* unsupported event is handed over (and reaches the listener, if any).
C14_ClipboardClosedOnce ==
    Checked /\ Windows =>
        IF Snap.open
        THEN /\ Cardinality(StepsAt("CloseClipboard")) = 1
             /\ \A c \in StepsAt("CloseClipboard") :
                   \A i \in 1..Len(call.trace) :
                       call.trace[i] \in SendSteps => c < i
        ELSE /\ StepsAt("CloseClipboard") = {}
             /\ call.sent = <<UnsupportedEvent>>
             /\ Listening => call.pushed = <<UnsupportedEvent>>

\* The same for every check that is not left by the exception of C7.
C14_ClosedOnceUnlessThrown ==
    Checked /\ Windows /\ pc = "responded" =>
        IF Snap.open
        THEN /\ Cardinality(StepsAt("CloseClipboard")) = 1
             /\ Cardinality(UNION {StepsAt(step) : step \in SendSteps}) = 1
             /\ \A c \in StepsAt("CloseClipboard") :
                   \A i \in 1..Len(call.trace) :
                       call.trace[i] \in SendSteps => c < i
        ELSE /\ StepsAt("CloseClipboard") = {}
             /\ call.sent = <<UnsupportedEvent>>
             /\ Listening => call.pushed = <<UnsupportedEvent>>

\* A Windows check was left with the clipboard open.
C14_LeftOpenReached ==
    /\ Checked /\ Windows /\ Snap.open
    /\ StepsAt("CloseClipboard") = {}

====
